---- MODULE Spec2Model ----
(***************************************************************************)
(* Model of src/app.py, the Streamlit dashboard of dental-clinic meetings.  *)
(*                                                                          *)
(* The script is re-executed top to bottom on every user interaction (a     *)
(* "rendering cycle").  The model follows one browser session: pc is the    *)
(* position of the script, the widget states (selectbox, button, chart      *)
(* selection) persist between cycles, the script's local names are unbound  *)
(* at the start of every cycle, and the table returned by load_data is kept *)
(* in the process-wide st.cache_data cache.                                 *)
(*                                                                          *)
(* Strings that the code transforms or compares (nombre_crm, mes) are       *)
(* tuples of one-character strings, so that str.strip, str.lower,           *)
(* str.capitalize and the lexicographic sort of groupby are computed and    *)
(* not assumed.  A missing cell (pandas NaN) is the tuple NaN.  An optional *)
(* number (mes_num) is <<>> when missing and <<n>> otherwise.               *)
(* DataFrames are sequences of rows (records); the names df and df_filtrado *)
(* hold references into objs, so that a write through one name is seen      *)
(* through every name bound to the same object.                             *)
(* The columns clinica, email_crm and Hora_dt are carried along unchanged   *)
(* by the code and are left out of the rows.                                *)
(***************************************************************************)
EXTENDS Integers, Sequences, FiniteSets, TLC

\* ------------------------------------------------------------------ bounds
\* Longest input file, in rows.
MaxRows == 2
\* The clock advances in steps of TickSeconds, at most up to MaxClock.
TickSeconds == 350
MaxClock == 700

\* ----------------------------------------------------------------- strings
NaN == <<"<NaN>">>

septiembre == <<"s","e","p","t","i","e","m","b","r","e">>
octubre == <<"o","c","t","u","b","r","e">>
noviembre == <<"n","o","v","i","e","m","b","r","e">>
diciembre == <<"d","i","c","i","e","m","b","r","e">>
enero == <<"e","n","e","r","o">>
febrero == <<"f","e","b","r","e","r","o">>
TodosLosMeses == <<"T","o","d","o","s"," ","l","o","s"," ","m","e","s","e","s">>

UpperCase == <<"A","B","C","D","E","F","G","H","I","J","K","L","M",
               "N","O","P","Q","R","S","T","U","V","W","X","Y","Z">>
LowerCase == <<"a","b","c","d","e","f","g","h","i","j","k","l","m",
               "n","o","p","q","r","s","t","u","v","w","x","y","z">>
\* The characters in code-point order: space, A-Z, a-z.
CodePoints == <<" ">> \o UpperCase \o LowerCase

Ord(c) == CHOOSE i \in 1..Len(CodePoints) : CodePoints[i] = c

LowerChar(c) ==
    IF \E i \in 1..Len(UpperCase) : UpperCase[i] = c
    THEN LowerCase[CHOOSE i \in 1..Len(UpperCase) : UpperCase[i] = c]
    ELSE c

UpperChar(c) ==
    IF \E i \in 1..Len(LowerCase) : LowerCase[i] = c
    THEN UpperCase[CHOOSE i \in 1..Len(LowerCase) : LowerCase[i] = c]
    ELSE c

\* str.lower() / str.capitalize() of a Python str.
Lower(s) == [i \in 1..Len(s) |-> LowerChar(s[i])]
Capitalize(s) == [i \in 1..Len(s) |-> IF i = 1 THEN UpperChar(s[i]) ELSE LowerChar(s[i])]

RECURSIVE LStrip(_)
LStrip(s) == IF s # <<>> /\ Head(s) = " " THEN LStrip(Tail(s)) ELSE s

RECURSIVE RStrip(_)
RStrip(s) == IF s # <<>> /\ s[Len(s)] = " " THEN RStrip(SubSeq(s, 1, Len(s) - 1)) ELSE s

Strip(s) == RStrip(LStrip(s))

\* Series.str.strip() / Series.str.lower(): a missing cell stays missing.
str_strip(cell) == IF cell = NaN THEN NaN ELSE Strip(cell)
str_lower(cell) == IF cell = NaN THEN NaN ELSE Lower(cell)

\* Python's < on str: lexicographic by code point.
RECURSIVE LexLess(_, _)
LexLess(a, b) ==
    IF a = <<>> THEN b # <<>>
    ELSE IF b = <<>> THEN FALSE
    ELSE IF Ord(Head(a)) < Ord(Head(b)) THEN TRUE
    ELSE IF Ord(Head(a)) > Ord(Head(b)) THEN FALSE
    ELSE LexLess(Tail(a), Tail(b))

\* --------------------------------------------------------------- the input
\* Rows that data/clinicas.csv may hold (raw cells, as read_csv yields them).
Row1 == [nombre_crm |-> <<" ","A","n","a"," ">>, mes |-> <<" ","E","n","e","r","o"," ">>,
         fecha |-> <<5, 1, 2025>>, Hora |-> <<9, 15, 0>>]
Row2 == [nombre_crm |-> <<"L","u","i","s">>, mes |-> <<"S","E","P","T","I","E","M","B","R","E">>,
         fecha |-> <<17, 9, 2024>>, Hora |-> <<14, 5, 0>>]
Row3 == [nombre_crm |-> NaN, mes |-> enero,
         fecha |-> <<5, 1, 2025>>, Hora |-> <<20, 0, 0>>]
Row4 == [nombre_crm |-> <<"A","n","a">>, mes |-> octubre,
         fecha |-> <<17, 10, 2024>>, Hora |-> <<7, 30, 0>>]
Row5 == [nombre_crm |-> <<"L","u","i","s">>, mes |-> febrero,
         fecha |-> <<3, 2, 2025>>, Hora |-> <<10, 0, 0>>]
Row6 == [nombre_crm |-> <<"A","n","a">>, mes |-> NaN,
         fecha |-> <<3, 2, 2025>>, Hora |-> <<8, 0, 0>>]
Row7 == [nombre_crm |-> <<"L","u","i","s">>, mes |-> <<"D","i","c","i","e","m","b","r","e">>,
         fecha |-> <<5, 12, 2024>>, Hora |-> <<18, 45, 0>>]
Row8 == [nombre_crm |-> <<"A","n","a">>, mes |-> noviembre,
         fecha |-> <<17, 11, 2024>>, Hora |-> <<12, 0, 0>>]

RowPool == {Row1, Row2, Row3, Row4, Row5, Row6, Row7, Row8}
\* The rows of the files used where the file is rewritten between cycles.
CachePool == {Row1, Row3}

FilesOver(pool) == UNION {[1..n -> pool] : n \in 0..MaxRows}

\* --------------------------------------------------------------- load_data
\* read_csv gives a column whose cells are all missing the dtype float64, and
\* the .str accessor of such a column raises AttributeError.
StrAccessorRaises(frame, col) ==
    /\ Len(frame) > 0
    /\ \A i \in 1..Len(frame) : frame[i][col] = NaN

LoadRaises(file) ==
    StrAccessorRaises(file, "nombre_crm") \/ StrAccessorRaises(file, "mes")

meses_orden ==
    (septiembre :> 9) @@ (octubre :> 10) @@ (noviembre :> 11) @@
    (diciembre :> 12) @@ (enero :> 1)

\* Series.map(dict): a key absent from the dict maps to NaN.
MapMes(m) == IF m \in DOMAIN meses_orden THEN <<meses_orden[m]>> ELSE <<>>

\* pd.to_datetime(Hora, format='%H:%M:%S').dt.hour
HourOf(hora) == hora[1]

Clean(raw) ==
    LET m == str_strip(str_lower(raw.mes)) IN
    [nombre_crm |-> str_strip(raw.nombre_crm),
     mes |-> m,
     fecha |-> raw.fecha,
     Hora |-> raw.Hora,
     Hora_num |-> HourOf(raw.Hora),
     mes_num |-> MapMes(m)]

\* Order of sort_values: ascending, missing keys last.
KeyLeq(a, b) == b = <<>> \/ (a # <<>> /\ a[1] <= b[1])

\* sort_values('mes_num') uses the default kind 'quicksort', which is not
\* stable: every arrangement sorted by the key is a possible outcome.
SortValues(frame) ==
    {t \in {[i \in 1..Len(frame) |-> frame[p[i]]] : p \in Permutations(1..Len(frame))} :
        \A i \in 1..Len(t) : \A j \in i..Len(t) : KeyLeq(t[i].mes_num, t[j].mes_num)}

\* The tables load_data may return for a file it can load.
load_data(file) == SortValues([i \in 1..Len(file) |-> Clean(file[i])])

\* ------------------------------------------------------------ pandas helpers
\* df[col] == value: a missing cell equals nothing, a missing value neither.
CellEq(cell, value) == cell # NaN /\ value # NaN /\ cell = value

\* The comparison inverted: df[df['mes'] != m].
BoolIndexNot(frame, m) == SelectSeq(frame, LAMBDA r : ~CellEq(r.mes, m))

\* df[df['mes'] == m]: boolean indexing, the rows in order.
BoolIndex(frame, m) == SelectSeq(frame, LAMBDA r : CellEq(r.mes, m))

\* Series.unique(): the distinct cells in order of first appearance, NaN included.
RECURSIVE Unique(_)
Unique(cells) ==
    IF cells = <<>> THEN <<>>
    ELSE LET init == Unique(SubSeq(cells, 1, Len(cells) - 1))
             last == cells[Len(cells)]
         IN IF \E i \in 1..Len(init) : init[i] = last THEN init ELSE Append(init, last)

Column(frame, col) == [i \in 1..Len(frame) |-> frame[i][col]]

\* The number of cells equal to v.
CountOf(cells, v) == Cardinality({i \in 1..Len(cells) : cells[i] = v})

\* A set of strings in ascending lexicographic order.
RECURSIVE SortStr(_)
SortStr(keys) ==
    IF keys = {} THEN <<>>
    ELSE LET least == CHOOSE k \in keys : \A o \in keys \ {k} : LexLess(k, o)
         IN <<least>> \o SortStr(keys \ {least})

\* A set of integers in ascending order.
RECURSIVE SortInt(_)
SortInt(keys) ==
    IF keys = {} THEN <<>>
    ELSE LET least == CHOOSE k \in keys : \A o \in keys : k <= o
         IN <<least>> \o SortInt(keys \ {least})

\* The groups of groupby('mes'): the distinct keys, missing keys dropped
\* (dropna=True), sorted by the key itself (sort=True), which for str is the
\* lexicographic order.
GroupKeys(frame) ==
    SortStr({frame[i].mes : i \in 1..Len(frame)} \ {NaN})

\* groupby('mes').agg({'nombre_crm': 'count'}).rename(...).reset_index():
\* 'count' counts the cells of the group that are not missing.
GroupByMes(frame) ==
    LET keys == GroupKeys(frame) IN
    [k \in 1..Len(keys) |->
        [mes |-> keys[k],
         total_reuniones |->
            Cardinality({i \in 1..Len(frame) :
                            frame[i].mes = keys[k] /\ frame[i].nombre_crm # NaN})]]

bins == <<8, 10, 12, 14, 16, 18, 20>>
labels == <<"8-10", "10-12", "12-14", "14-16", "16-18", "18-20">>
\* The missing category of a categorical column.
NoBand == "NaN"

\* pd.cut with its default right=True: the interval (bins[i], bins[i+1]].
CutRightClosed(x) ==
    IF \E i \in 1..Len(labels) : bins[i] < x /\ x <= bins[i + 1]
    THEN labels[CHOOSE i \in 1..Len(labels) : bins[i] < x /\ x <= bins[i + 1]]
    ELSE NoBand

\* pd.cut(x, bins, labels, right=False): the interval [bins[i], bins[i+1])
\* that holds x, or missing when none does.
Cut(x) ==
    IF \E i \in 1..Len(labels) : bins[i] <= x /\ x < bins[i + 1]
    THEN labels[CHOOSE i \in 1..Len(labels) : bins[i] <= x /\ x < bins[i + 1]]
    ELSE NoBand

\* value_counts().sort_index() of a categorical column: one entry for every
\* category, the observed and the unobserved (count 0), in category order;
\* missing cells are not counted.
BandCounts(frame) ==
    [k \in 1..Len(labels) |->
        [franja |-> labels[k],
         n |-> Cardinality({i \in 1..Len(frame) : frame[i].franja_horaria = labels[k]})]]

\* Series.idxmax() / idxmin(): the first label holding the extreme value.
IdxMax(counts) ==
    counts[CHOOSE k \in 1..Len(counts) :
              /\ \A j \in 1..Len(counts) : counts[j].n <= counts[k].n
              /\ \A j \in 1..(k - 1) : counts[j].n < counts[k].n].franja
IdxMin(counts) ==
    counts[CHOOSE k \in 1..Len(counts) :
              /\ \A j \in 1..Len(counts) : counts[j].n >= counts[k].n
              /\ \A j \in 1..(k - 1) : counts[j].n > counts[k].n].franja

\* value_counts() of an object column: the distinct cells that are not
\* missing, by descending count, equal counts in order of first appearance.
RECURSIVE ByCountDesc(_, _)
ByCountDesc(vals, cells) ==
    IF vals = <<>> THEN <<>>
    ELSE LET best == CHOOSE k \in 1..Len(vals) :
                        /\ \A j \in 1..Len(vals) : CountOf(cells, vals[j]) <= CountOf(cells, vals[k])
                        /\ \A j \in 1..(k - 1) : CountOf(cells, vals[j]) < CountOf(cells, vals[k])
             rest == [j \in 1..(Len(vals) - 1) |-> IF j < best THEN vals[j] ELSE vals[j + 1]]
         IN <<[value |-> vals[best], n |-> CountOf(cells, vals[best])]>> \o ByCountDesc(rest, cells)

ValueCounts(cells) ==
    ByCountDesc(SelectSeq(Unique(cells), LAMBDA v : v # NaN), cells)

TopN == 5
\* Series.head(n)
HeadN(s) == SubSeq(s, 1, IF Len(s) < TopN THEN Len(s) ELSE TopN)

\* pd.to_datetime(fecha, format='%d/%m/%Y').dt.day
DayOf(fecha) == fecha[1]

\* value_counts().sort_index() of the integer column dia.
DayCounts(frame) ==
    LET days == SortInt({frame[i].dia : i \in 1..Len(frame)}) IN
    [k \in 1..Len(days) |->
        [dia |-> days[k],
         n |-> Cardinality({i \in 1..Len(frame) : frame[i].dia = days[k]})]]

\* df[col] = f(df): the column col is added to (or replaced in) every row.
WithBand(frame) ==
    [i \in 1..Len(frame) |->
        [c \in (DOMAIN frame[i]) \cup {"franja_horaria"} |->
            IF c = "franja_horaria" THEN Cut(frame[i].Hora_num) ELSE frame[i][c]]]
WithDay(frame) ==
    [i \in 1..Len(frame) |->
        [c \in (DOMAIN frame[i]) \cup {"dia"} |->
            IF c = "dia" THEN DayOf(frame[i].fecha) ELSE frame[i][c]]]

\* ------------------------------------------------------------------- state
VARIABLES
    csv,                \* the rows of data/clinicas.csv
    cache,              \* st.cache_data: <<>> or <<the table load_data returned>>
    objs,               \* the DataFrame objects of the running script, by identity
    df,                 \* the object the name df is bound to
    df_filtrado,        \* the object the name df_filtrado is bound to
    pc,                 \* position of the script
    sel_mes,            \* widget state of the selectbox "Seleccionar Mes"
    clicked,            \* the button "Actualizar Datos" was clicked for this run
    chart_sel,          \* widget state of the month chart: <<>> or <<[x, fig]>>
    meses_unicos,
    mes_seleccionado,
    reuniones_por_mes,
    clinicas_mes,
    franjas,
    metrics,            \* <<>> or <<the three st.metric values>>
    header,             \* the month in the header of the detail section
    contactos_mes,
    dias_counts,
    now,                \* the wall clock, in seconds
    loaded_at,          \* <<>> or <<the time load_data last read the file with success>>
    cleared,            \* the cache was cleared after that load
    load_log            \* what the load_data call of this cycle did

vars == <<csv, cache, objs, df, df_filtrado, pc, sel_mes, clicked, chart_sel,
          meses_unicos, mes_seleccionado, reuniones_por_mes, clinicas_mes,
          franjas, metrics, header, contactos_mes, dias_counts,
          now, loaded_at, cleared, load_log>>

Unbound == "unbound"
ObjLoad == "obj_load"
ObjFilter == "obj_filter"
NoObjs == [o \in {ObjLoad, ObjFilter} |-> <<>>]

widgets == <<sel_mes, clicked, chart_sel>>
locals == <<objs, df, df_filtrado, meses_unicos, mes_seleccionado,
            reuniones_por_mes, clinicas_mes, franjas, metrics, header,
            contactos_mes, dias_counts, load_log>>
clock == <<now, loaded_at, cleared>>

\* A rerun executes the script from its first line with no name bound.
StartRun ==
    /\ pc' = "load"
    /\ objs' = NoObjs
    /\ df' = Unbound
    /\ df_filtrado' = Unbound
    /\ meses_unicos' = <<>>
    /\ mes_seleccionado' = <<>>
    /\ reuniones_por_mes' = <<>>
    /\ clinicas_mes' = <<>>
    /\ franjas' = <<>>
    /\ metrics' = <<>>
    /\ header' = <<>>
    /\ contactos_mes' = <<>>
    /\ dias_counts' = <<>>
    /\ load_log' = <<>>

InitSession ==
    /\ cache = <<>>
    /\ objs = NoObjs
    /\ df = Unbound
    /\ df_filtrado = Unbound
    /\ pc = "load"
    /\ sel_mes = TodosLosMeses
    /\ clicked = FALSE
    /\ chart_sel = <<>>
    /\ meses_unicos = <<>>
    /\ mes_seleccionado = <<>>
    /\ reuniones_por_mes = <<>>
    /\ clinicas_mes = <<>>
    /\ franjas = <<>>
    /\ metrics = <<>>
    /\ header = <<>>
    /\ contactos_mes = <<>>
    /\ dias_counts = <<>>
    /\ now = 0
    /\ loaded_at = <<>>
    /\ cleared = FALSE
    /\ load_log = <<>>

Init == csv \in FilesOver(RowPool) /\ InitSession

InitCache == csv \in FilesOver(CachePool) /\ InitSession

\* ------------------------------------------------------------ the script
\* @st.cache_data without ttl or max_entries: an entry, once stored, is
\* served until the cache is cleared, whatever its age.
CacheHit(c) == c # <<>>

\* The button reruns the script and leaves the cache as it is.
CacheKeep(c) == c

\* st.cache_data.clear()
CacheClear(c) == <<>>

\* What load_data's call does is recorded in load_log: whether the file was
\* read, whether the cache had been cleared since the last load, whether a
\* table had been loaded before, and the age of the cached table if any.
LogOf(read) ==
    <<[read |-> read,
       cleared |-> cleared,
       had |-> loaded_at # <<>>,
       age |-> IF cache # <<>> THEN <<now - loaded_at[1]>> ELSE <<>>]>>

\* line 42: df = load_data()
LoadData ==
    /\ pc = "load"
    /\ IF CacheHit(cache)
       THEN /\ objs' = [objs EXCEPT ![ObjLoad] = cache[1]]
            /\ df' = ObjLoad
            /\ pc' = "sidebar"
            /\ load_log' = LogOf(FALSE)
            /\ UNCHANGED <<cache, clock>>
       ELSE IF LoadRaises(csv)
       THEN /\ pc' = "error"
            /\ load_log' = LogOf(TRUE)
            /\ UNCHANGED <<cache, objs, df, clock>>
       ELSE \E t \in load_data(csv) :
            /\ cache' = <<t>>
            /\ objs' = [objs EXCEPT ![ObjLoad] = t]
            /\ df' = ObjLoad
            /\ pc' = "sidebar"
            /\ load_log' = LogOf(TRUE)
            /\ loaded_at' = <<now>>
            /\ cleared' = FALSE
            /\ UNCHANGED now
    /\ UNCHANGED <<csv, widgets, df_filtrado, meses_unicos, mes_seleccionado,
                   reuniones_por_mes, clinicas_mes, franjas, metrics, header,
                   contactos_mes, dias_counts>>

\* df[df['mes'] == m]: the selected rows in a new object.
GetItem(h, ref, m) == [heap |-> [h EXCEPT ![ObjFilter] = BoolIndex(h[ref], m)], ref |-> ObjFilter]

\* df_filtrado = df, without copy(): a second name for the same object.
DfAlias(h, ref) == [heap |-> h, ref |-> ref]

\* df.copy(): the rows in a new object.
DfCopy(h, ref) == [heap |-> [h EXCEPT ![ObjFilter] = h[ref]], ref |-> ObjFilter]

Options(unicos) == <<TodosLosMeses>> \o unicos

\* lines 48-58: the selectbox and the filter.  The selectbox keeps the
\* user's choice while it is among the options and else shows the first.
Sidebar ==
    /\ pc = "sidebar"
    /\ LET unicos == Unique(Column(objs[df], "mes"))
           opts == Options(unicos)
           choice == IF \E i \in 1..Len(opts) : opts[i] = sel_mes
                     THEN sel_mes ELSE TodosLosMeses
           res == IF choice # TodosLosMeses
                  THEN GetItem(objs, df, choice)
                  ELSE DfCopy(objs, df)
       IN /\ meses_unicos' = unicos
          /\ sel_mes' = choice
          /\ mes_seleccionado' = choice
          /\ objs' = res.heap
          /\ df_filtrado' = res.ref
    /\ pc' = "button"
    /\ UNCHANGED <<csv, cache, df, clicked, chart_sel, reuniones_por_mes,
                   clinicas_mes, franjas, metrics, header, contactos_mes,
                   dias_counts, clock, load_log>>

\* lines 61-63: the button clears the cache and reruns the script.
Button ==
    /\ pc = "button"
    /\ IF clicked
       THEN /\ cache' = CacheClear(cache)
            /\ cleared' = TRUE
            /\ clicked' = FALSE
            /\ StartRun
            /\ UNCHANGED <<now, loaded_at>>
       ELSE /\ pc' = "por_mes"
            /\ UNCHANGED <<cache, clicked, locals, clock>>
    /\ UNCHANGED <<csv, sel_mes, chart_sel>>

\* lines 110-117: the columns shown for the selected bar, renamed.
Detail(frame) ==
    [i \in 1..Len(frame) |->
        [Nombre_Contacto |-> frame[i].nombre_crm,
         Fecha |-> frame[i].fecha,
         Hora |-> frame[i].Hora]]

\* lines 76-110: the month chart and the bar selected in it.  The selection
\* belongs to the figure it was made on: another figure is another element,
\* with no selection.
ReunionesPorMes ==
    /\ pc = "por_mes"
    /\ LET fig == GroupByMes(objs[df_filtrado])
           live == chart_sel # <<>> /\ chart_sel[1].fig = fig
       IN /\ reuniones_por_mes' = fig
          /\ chart_sel' = IF live THEN chart_sel ELSE <<>>
          /\ mes_seleccionado' = IF live THEN chart_sel[1].x ELSE mes_seleccionado
          /\ clinicas_mes' = IF live THEN Detail(BoolIndex(objs[df], chart_sel[1].x)) ELSE <<>>
    /\ pc' = "franjas"
    /\ UNCHANGED <<csv, cache, objs, df, df_filtrado, sel_mes, clicked,
                   meses_unicos, franjas, metrics, header, contactos_mes,
                   dias_counts, clock, load_log>>

\* lines 137-176: the band column is written into the object df_filtrado is
\* bound to, then the histogram and the three metrics.
Franjas ==
    /\ pc = "franjas"
    /\ LET banded == WithBand(objs[df_filtrado])
           counts == BandCounts(banded)
       IN /\ objs' = [objs EXCEPT ![df_filtrado] = banded]
          /\ franjas' = counts
          /\ metrics' = IF counts # <<>>
                        THEN <<[franja_mas |-> IdxMax(counts),
                                franja_menos |-> IdxMin(counts),
                                total |-> Len(banded)]>>
                        ELSE <<>>
    /\ pc' = "detalle"
    /\ UNCHANGED <<csv, cache, df, df_filtrado, widgets, meses_unicos,
                   mes_seleccionado, reuniones_por_mes, clinicas_mes, header,
                   contactos_mes, dias_counts, clock, load_log>>

\* lines 182-198: the detail section.  A missing month chosen in the
\* selectbox is a float, which has no capitalize(): AttributeError.
Detalle ==
    /\ pc = "detalle"
    /\ IF mes_seleccionado = TodosLosMeses
       THEN /\ pc' = "idle"
            /\ UNCHANGED <<objs, header, contactos_mes, dias_counts>>
       ELSE IF mes_seleccionado = NaN
       THEN /\ pc' = "error"
            /\ UNCHANGED <<objs, header, contactos_mes, dias_counts>>
       ELSE LET dated == WithDay(objs[df_filtrado]) IN
            /\ header' = Capitalize(mes_seleccionado)
            /\ contactos_mes' = HeadN(ValueCounts(Column(objs[df_filtrado], "nombre_crm")))
            /\ objs' = [objs EXCEPT ![df_filtrado] = dated]
            /\ dias_counts' = DayCounts(dated)
            /\ pc' = "idle"
    /\ UNCHANGED <<csv, cache, df, df_filtrado, widgets, meses_unicos,
                   mes_seleccionado, reuniones_por_mes, clinicas_mes, franjas,
                   metrics, clock, load_log>>

\* ---------------------------------------------------------------- the user
\* The script has stopped: the page is complete, or an exception ended it.
Stopped == pc \in {"idle", "error"}
\* The sidebar was drawn before the script stopped.
SidebarDrawn == Stopped /\ df_filtrado # Unbound

UserSelectMes ==
    /\ SidebarDrawn
    /\ \E i \in 1..Len(Options(meses_unicos)) :
          /\ Options(meses_unicos)[i] # sel_mes
          /\ sel_mes' = Options(meses_unicos)[i]
    /\ StartRun
    /\ UNCHANGED <<csv, cache, clicked, chart_sel, clock>>

UserClickBar ==
    /\ Stopped
    /\ \E k \in 1..Len(reuniones_por_mes) :
          /\ chart_sel # <<[x |-> reuniones_por_mes[k].mes, fig |-> reuniones_por_mes]>>
          /\ chart_sel' = <<[x |-> reuniones_por_mes[k].mes, fig |-> reuniones_por_mes]>>
    /\ StartRun
    /\ UNCHANGED <<csv, cache, sel_mes, clicked, clock>>

UserClearBar ==
    /\ Stopped
    /\ reuniones_por_mes # <<>>
    /\ chart_sel # <<>>
    /\ chart_sel' = <<>>
    /\ StartRun
    /\ UNCHANGED <<csv, cache, sel_mes, clicked, clock>>

UserClickButton ==
    /\ SidebarDrawn
    /\ clicked' = TRUE
    /\ StartRun
    /\ UNCHANGED <<csv, cache, sel_mes, chart_sel, clock>>

\* After an exception the user can only run the script again.
UserRerun ==
    /\ pc = "error"
    /\ StartRun
    /\ UNCHANGED <<csv, cache, widgets, clock>>

\* ---------------------------------------------------------- the environment
Tick ==
    /\ Stopped
    /\ now < MaxClock
    /\ now' = now + TickSeconds
    /\ UNCHANGED <<csv, cache, pc, widgets, locals, loaded_at, cleared>>

WriteFile ==
    /\ Stopped
    /\ \E f \in FilesOver(CachePool) : f # csv /\ csv' = f
    /\ UNCHANGED <<cache, pc, widgets, locals, clock>>

Script == LoadData \/ Sidebar \/ Button \/ ReunionesPorMes \/ Franjas \/ Detalle
User == UserSelectMes \/ UserClickBar \/ UserClearBar \/ UserClickButton \/ UserRerun

Next == Script \/ User
Spec == Init /\ [][Next]_vars

NextCache == Script \/ User \/ Tick \/ WriteFile
SpecCache == InitCache /\ [][NextCache]_vars

\* ------------------------------------------------------------------ claims
\* The cycle of months the dashboard covers, in chronological order.
Cycle == <<septiembre, octubre, noviembre, diciembre, enero>>
Known(m) == \E k \in 1..Len(Cycle) : Cycle[k] = m
CyclePos(m) == CHOOSE k \in 1..Len(Cycle) : Cycle[k] = m

\* The columns of the table load_data returns.
BaseCols == {"nombre_crm", "mes", "fecha", "Hora", "Hora_num", "mes_num"}
BaseFrame(frame) == [i \in 1..Len(frame) |-> [c \in BaseCols |-> frame[i][c]]]

RECURSIVE SumTotals(_)
SumTotals(counts) ==
    IF counts = <<>> THEN 0 ELSE Head(counts).total_reuniones + SumTotals(Tail(counts))

Loaded == df # Unbound
Filtered == df_filtrado # Unbound
\* The month chart of this cycle has been computed.
Charted == pc \in {"franjas", "detalle", "idle"}
\* The band histogram of this cycle has been computed.
Banded == pc \in {"detalle", "idle"}

\* C1: any two rows of the loaded table whose months are of the cycle have
\* ordinals in the order of the cycle (septiembre < octubre < noviembre <
\* diciembre < enero), and enero has ordinal 13.
C1_OrdinalFollowsCycle ==
    Loaded =>
        \A i, j \in 1..Len(objs[df]) :
            LET a == objs[df][i]
                b == objs[df][j]
            IN (Known(a.mes) /\ Known(b.mes)) =>
                  /\ a.mes_num # <<>> /\ b.mes_num # <<>>
                  /\ (a.mes_num[1] < b.mes_num[1]) <=> (CyclePos(a.mes) < CyclePos(b.mes))
                  /\ (a.mes = enero => a.mes_num = <<13>>)

\* C2: the count-by-month result has exactly one entry per distinct month
\* present in the filtered table, and its entries are in the order of the cycle.
C2_CountByMonthInCycleOrder ==
    Charted =>
        LET r == reuniones_por_mes
            present == {objs[df_filtrado][i].mes : i \in 1..Len(objs[df_filtrado])} \ {NaN}
        IN /\ {r[k].mes : k \in 1..Len(r)} = present
           /\ Len(r) = Cardinality(present)
           /\ \A k, l \in 1..Len(r) :
                 (k < l /\ Known(r[k].mes) /\ Known(r[l].mes)) =>
                     CyclePos(r[k].mes) < CyclePos(r[l].mes)

\* The band of an hour as the half-open buckets state it.
BandOfHour(h) ==
    CASE h \in 8..9 -> "8-10"
      [] h \in 10..11 -> "10-12"
      [] h \in 12..13 -> "12-14"
      [] h \in 14..15 -> "14-16"
      [] h \in 16..17 -> "16-18"
      [] h \in 18..19 -> "18-20"
      [] OTHER -> NoBand

\* C3: the band is a total function of the hour 0..23 with half-open
\* buckets; an hour below 8 or of 20 and above has no band, is not counted in
\* the band histogram, and its record is counted in the total-meetings metric.
C3_HalfOpenBands ==
    /\ \A h \in 0..23 : Cut(h) = BandOfHour(h)
    /\ Banded =>
          LET t == objs[df_filtrado] IN
          /\ \A i \in 1..Len(t) : t[i].franja_horaria = BandOfHour(t[i].Hora_num)
          /\ \A k \in 1..Len(franjas) :
                franjas[k].n =
                    Cardinality({i \in 1..Len(t) : BandOfHour(t[i].Hora_num) = franjas[k].franja})
          /\ \A k \in 1..Len(franjas) : franjas[k].franja # NoBand
          /\ metrics # <<>>
          /\ metrics[1].total = Len(t)

C3_Witness ==
    /\ pc = "idle"
    /\ Len(objs[df_filtrado]) = 2
    /\ \E i \in 1..2 : objs[df_filtrado][i].Hora_num = 20
    /\ \E i \in 1..2 : objs[df_filtrado][i].Hora_num = 10
    /\ metrics[1].total = 2
    /\ \E k \in 1..Len(franjas) : franjas[k].franja = "10-12" /\ franjas[k].n = 1

\* C4: right after the filter, a month chosen in the selectbox leaves exactly
\* the rows of the table whose month is that month, the choice "Todos los
\* meses" leaves every row of the table, and filtering by any month value
\* keeps exactly the rows of that month.
C4_FilterByMonth ==
    /\ pc \in {"button", "por_mes"} =>
          IF mes_seleccionado = TodosLosMeses
          THEN objs[df_filtrado] = objs[df]
          ELSE mes_seleccionado # NaN =>
                  objs[df_filtrado] = SelectSeq(objs[df], LAMBDA r : r.mes = mes_seleccionado)
    /\ Loaded =>
          \A m \in {septiembre, octubre, noviembre, diciembre, enero, febrero} :
              GetItem(objs, df, m).heap[GetItem(objs, df, m).ref]
                  = SelectSeq(objs[df], LAMBDA r : r.mes = m)

C4_Witness ==
    /\ pc = "button"
    /\ mes_seleccionado = enero
    /\ Len(objs[df]) = 2
    /\ Len(objs[df_filtrado]) = 1
    /\ objs[df_filtrado][1].mes = enero

\* C5: the counts of the count-by-month result add up to the number of rows
\* of the filtered table.
C5_CountsAddUp ==
    Charted => SumTotals(reuniones_por_mes) = Len(objs[df_filtrado])

\* C6: when the filtered table is empty the script does not raise, every
\* aggregate it computes is an empty sequence, and the total-meetings metric,
\* if shown, is 0.
C6_EmptyTableEmptyAggregates ==
    (Filtered /\ Len(objs[df_filtrado]) = 0) =>
        /\ pc # "error"
        /\ reuniones_por_mes = <<>>
        /\ franjas = <<>>
        /\ contactos_mes = <<>>
        /\ dias_counts = <<>>
        /\ metrics # <<>> => metrics[1].total = 0

\* C7: the loaded table holds no row whose month is outside the cycle, that
\* is, no row with a month and an undefined ordinal.
C7_NoUnknownMonthLoaded ==
    Loaded =>
        \A i \in 1..Len(objs[df]) :
            objs[df][i].mes # NaN =>
                Known(objs[df][i].mes) /\ objs[df][i].mes_num # <<>>

\* C8: as long as the name df is bound, the table it is bound to (rows and
\* columns) is the table load_data returned, whatever the filter choice and
\* whatever columns were derived on the filtered table.
C8_BaseTableUntouched ==
    Loaded => cache # <<>> /\ objs[df] = cache[1]

C8_Witness ==
    /\ pc = "idle"
    /\ sel_mes = enero
    /\ header # <<>>
    /\ Len(objs[df]) = 2
    /\ Len(objs[df_filtrado]) = 1
    /\ "franja_horaria" \in DOMAIN objs[df_filtrado][1]
    /\ "dia" \in DOMAIN objs[df_filtrado][1]

C10_DetailOfHeaderMonth ==
    header # <<>> =>
        LET rows == SelectSeq(objs[df], LAMBDA r : Capitalize(r.mes) = header) IN
        /\ BaseFrame(objs[df_filtrado]) = rows
        /\ contactos_mes = HeadN(ValueCounts(Column(rows, "nombre_crm")))
        /\ dias_counts = DayCounts(WithDay(rows))

====
